---- MODULE Spec2Model ----
(***************************************************************************)
(* Model of the CodeQL bundle acquisition pipeline of codeql-action:       *)
(* downloadAndExtract and downloadAndExtractZstdWithStreaming              *)
(* (src/src/tools-download.ts).  Each invocation of downloadAndExtract is  *)
(* one process p; its position in the code is pc[p].  The collaborators    *)
(* (HTTP transport, tar, toolcache.downloadTool, cleanUpGlob, uuid,        *)
(* performance.now) are modelled by their outcomes, chosen with \E.        *)
(***************************************************************************)
EXTENDS Integers, Sequences, FiniteSets, TLC

(***************************************************************************)
(* Bounds of the model.                                                    *)
(***************************************************************************)
\* largest elapsed time of one measured phase, in half milliseconds
MaxElapsed == 2
\* number of identifiers uuidV4 can hand out
NumUuids == 2
\* number of distinct directories the extraction collaborator can report
NumExtractDirs == 1

\* the invocations of downloadAndExtract that are followed
Procs == {"inv1", "inv2"}
Uuids == 1..NumUuids
ExtractDirs == 1..NumExtractDirs
Elapsed == 0..MaxElapsed

(***************************************************************************)
(* Strings.  A URL is the sequence of the pieces whose concatenation is    *)
(* the URL text; startsWith / endsWith are decided on the pieces.          *)
(***************************************************************************)
GitHubOrigin == "https://github.com/"
ReleasesDownload == "/releases/download/"

Origins == {GitHubOrigin, "https://example.com/"}

Url(origin, repo, file, ext) == <<origin, repo, ReleasesDownload, file, ext>>

\* the source URLs of the requests that are followed
Urls ==
  { Url(GitHubOrigin, "github/codeql-action", "codeql-bundle", ".tar.zst"),
    Url(GitHubOrigin, "dsp-testing/codeql-cli-nightlies", "codeql-bundle", ".tar.gz"),
    Url(GitHubOrigin, "github/codeql-action-fork", "codeql-bundle", ".tar.zst"),
    Url("https://example.com/", "github/codeql-action", "codeql-bundle", ".tar.zst"),
    Url("https://example.com/", "mirror/tools", "codeql-bundle", ".tar.gz"),
    Url(GitHubOrigin, "github/codeql-action", "codeql-bundle", ".zip"),
    Url("github.com/", "github/codeql-action", "codeql-bundle", ".tar.zst"),
    <<"https://example.com/", "mirror?of=">>
      \o Url(GitHubOrigin, "github/codeql-action", "codeql-bundle", ".tar.zst") }

Platforms == {"linux", "darwin", "win32"}

StartsWith(s, prefix) ==
  /\ Len(s) >= Len(prefix)
  /\ SubSeq(s, 1, Len(prefix)) = prefix

EndsWith(s, suffix) == Len(s) >= 1 /\ s[Len(s)] = suffix

\* an optional value: <<>> is undefined, <<v>> is v
Undefined == <<>>
Some(v) == <<v>>

\* Math.round of a non-negative time given in half milliseconds
MathRound(halfMs) == (halfMs + 1) \div 2

(***************************************************************************)
(* Pure functions of tools-download.ts.                                    *)
(***************************************************************************)
TrustedRepos == {"github/codeql-action", "dsp-testing/codeql-cli-nightlies"}

SanitizedValue == <<"sanitized-value">>

\* mutant: the prefix is looked for anywhere in the URL (includes for startsWith)
sanitizeUrlForStatusReport_Includes(url) ==
  IF \E repo \in TrustedRepos : \E i \in 1..Len(url) :
       StartsWith(SubSeq(url, i, Len(url)), <<GitHubOrigin, repo, ReleasesDownload>>)
  THEN url
  ELSE SanitizedValue

sanitizeUrlForStatusReport(url) ==
  IF \E repo \in TrustedRepos :
       StartsWith(url, <<GitHubOrigin, repo, ReleasesDownload>>)
  THEN url
  ELSE SanitizedValue

\* mutant: the combined duration leaves the extraction out
makeDownloadFirstToolsDownloadDurations_NoSum(downloadDurationMs, extractionDurationMs) ==
  [ combinedDurationMs |-> downloadDurationMs,
    downloadDurationMs |-> Some(downloadDurationMs),
    extractionDurationMs |-> Some(extractionDurationMs),
    streamExtraction |-> FALSE ]

makeDownloadFirstToolsDownloadDurations(downloadDurationMs, extractionDurationMs) ==
  [ combinedDurationMs |-> downloadDurationMs + extractionDurationMs,
    downloadDurationMs |-> Some(downloadDurationMs),
    extractionDurationMs |-> Some(extractionDurationMs),
    streamExtraction |-> FALSE ]

\* mutant: the phase durations are reported as 0 instead of undefined
makeStreamedToolsDownloadDurations_Zeroes(combinedDurationMs) ==
  [ combinedDurationMs |-> combinedDurationMs,
    downloadDurationMs |-> Some(0),
    extractionDurationMs |-> Some(0),
    streamExtraction |-> TRUE ]

makeStreamedToolsDownloadDurations(combinedDurationMs) ==
  [ combinedDurationMs |-> combinedDurationMs,
    downloadDurationMs |-> Undefined,
    extractionDurationMs |-> Undefined,
    streamExtraction |-> TRUE ]

\* tar.inferCompressionMethod: by the suffix of the URL
UnrecognizedFormat == "UnrecognizedFormat"
inferCompressionMethod(url) ==
  IF EndsWith(url, ".tar.gz") THEN "gzip"
  ELSE IF EndsWith(url, ".tar.zst") THEN "zstd"
  ELSE UnrecognizedFormat

\* mutant: the platform is not looked at
StreamingEligible_AnyPlatform(compressionMethod, platform) ==
  compressionMethod = "zstd"

\* the condition of line 93
StreamingEligible(compressionMethod, platform) ==
  compressionMethod = "zstd" /\ platform = "linux"

\* new URL(url) of adjustUrlByProxy throws on a text that is no absolute URL
IsAbsoluteUrl(url) == url[1] \in Origins

\* a header object: header name -> value; {} is the object without headers
NoHeaders == [k \in {} |-> ""]
Header(name, value) == name :> value

\* the authorization arguments, the headers arguments and the proxy settings
\* of the calls that are followed
Authorizations == {Undefined, Some(""), Some("token secret")}
CallerHeaders ==
  { NoHeaders,
    Header("accept", "application/octet-stream"),
    Header("authorization", "token of caller"),
    Header("User-Agent", "custom agent") @@ Header("accept", "application/octet-stream") }
ProxyUrl == <<"http://proxy.example:8080/">>
ProxySettings == {Undefined, Some(ProxyUrl)}

\* Object.assign(target, a, b): the keys of all three, later sources winning
ObjectAssign(target, a, b) ==
  [ k \in DOMAIN target \cup DOMAIN a \cup DOMAIN b |->
      IF k \in DOMAIN b THEN b[k]
      ELSE IF k \in DOMAIN a THEN a[k]
      ELSE target[k] ]

\* mutant: the caller's headers are the target and the fixed ones win
StreamingHeaders_FixedWin(auth, callerHeaders) ==
  ObjectAssign(callerHeaders,
               IF auth # Undefined /\ auth[1] # "" THEN Header("authorization", auth[1])
               ELSE NoHeaders,
               Header("User-Agent", "CodeQL Action"))

\* lines 192-196; authorization ? {authorization} : {} drops undefined and ""
StreamingHeaders(auth, callerHeaders) ==
  ObjectAssign(Header("User-Agent", "CodeQL Action"),
               IF auth # Undefined /\ auth[1] # "" THEN Header("authorization", auth[1])
               ELSE NoHeaders,
               callerHeaders)

\* line 190: adjustUrlByProxy(codeqlURL) || codeqlURL
DownloadUrl(url, proxyUrl) == IF proxyUrl # Undefined THEN proxyUrl[1] ELSE url

\* the errors the collaborators of the buffered strategy raise
DownloadErrors == {"HTTPError", "ENOSPC"}
ExtractionErrors == {"CommandInvocationError", "ENOSPC"}

\* the spread of lines 116-120 and 171-178
StatusReport(compressionMethod, url, durations) ==
  [ compressionMethod |-> compressionMethod,
    toolsUrl |-> sanitizeUrlForStatusReport(url),
    zstdFailureReason |-> Undefined,
    combinedDurationMs |-> durations.combinedDurationMs,
    downloadDurationMs |-> durations.downloadDurationMs,
    extractionDurationMs |-> durations.extractionDurationMs,
    streamExtraction |-> durations.streamExtraction ]

(***************************************************************************)
(* Feature flags: src/unnamed/part_000.                                    *)
(***************************************************************************)
\* calls of Features.getValue made on the instance
MaxCalls == 2

\* the callers whose calls of getValue may overlap
Callers == {"call1", "call2"}

\* enum Feature, lines 11-17
Feature == { "bypass_toolcache_enabled",
             "ml_powered_queries_enabled",
             "trap_caching_enabled",
             "golang_extraction_reconciliation_enabled",
             "cli_config_file_enabled" }

BypassToolcacheEnabled == "bypass_toolcache_enabled"

\* featureConfig, lines 19-43; a version is its three numbers
featureConfig ==
  ( "bypass_toolcache_enabled" :>
      [envVar |-> "CODEQL_BYPASS_TOOLCACHE", minimumVersion |-> Undefined] )
  @@ ( "ml_powered_queries_enabled" :>
      [envVar |-> "CODEQL_ML_POWERED_QUERIES", minimumVersion |-> Some(<<2, 7, 5>>)] )
  @@ ( "trap_caching_enabled" :>
      [envVar |-> "CODEQL_TRAP_CACHING", minimumVersion |-> Undefined] )
  @@ ( "golang_extraction_reconciliation_enabled" :>
      [envVar |-> "CODEQL_GOLANG_EXTRACTION_RECONCILIATION", minimumVersion |-> Undefined] )
  @@ ( "cli_config_file_enabled" :>
      [envVar |-> "CODEQL_PASS_CONFIG_TO_CLI", minimumVersion |-> Some(<<2, 10, 1>>)] )

\* the codeql argument: no instance, or an instance of some CLI version
CliVersions == { <<2, 7, 4>>, <<2, 7, 5>>, <<2, 10, 1>> }
CodeQLs == {Undefined} \cup { Some(v) : v \in CliVersions }

\* version a precedes version b
VersionBelow(a, b) ==
  \/ a[1] < b[1]
  \/ a[1] = b[1] /\ a[2] < b[2]
  \/ a[1] = b[1] /\ a[2] = b[2] /\ a[3] < b[3]

\* util.codeQlVersionAbove(codeql, requiredVersion), called at line 111:
\* the CLI's version is not below the required one
codeQlVersionAbove(codeql, requiredVersion) ==
  ~VersionBelow(codeql[1], requiredVersion)

\* the values process.env holds for the flag's variable; "" is unset
EnvValues == {"", "false", "FALSE", "true", "True", "1"}

\* String.prototype.toLocaleLowerCase on those values, line 101
toLocaleLowerCase(v) ==
  CASE v = "FALSE" -> "false"
    [] v = "True" -> "true"
    [] OTHER -> v

\* Features.getValue up to the version check, lines 88-110, with the
\* environment variable consulted before the missing-instance error
BeforeVersionCheck_EnvFirst(flag, codeql, env, testMode) ==
  IF toLocaleLowerCase(env) = "false" THEN "false"
  ELSE IF codeql = Undefined /\ featureConfig[flag].minimumVersion # Undefined
  THEN "throw"
  ELSE IF flag = BypassToolcacheEnabled /\ testMode THEN "false"
  ELSE IF codeql # Undefined /\ featureConfig[flag].minimumVersion # Undefined
  THEN "version"
  ELSE "continue"

\* Features.getValue up to the version check, lines 88-110, with the
\* version check left out
BeforeVersionCheck_NoVersion(flag, codeql, env, testMode) ==
  IF codeql = Undefined /\ featureConfig[flag].minimumVersion # Undefined
  THEN "throw"
  ELSE IF flag = BypassToolcacheEnabled /\ testMode THEN "false"
  ELSE IF toLocaleLowerCase(env) = "false" THEN "false"
  ELSE "continue"

\* Features.getValue up to the version check, lines 88-110: what the call
\* does next
BeforeVersionCheck(flag, codeql, env, testMode) ==
  IF codeql = Undefined /\ featureConfig[flag].minimumVersion # Undefined
  THEN "throw"
  ELSE IF flag = BypassToolcacheEnabled /\ testMode THEN "false"
  ELSE IF toLocaleLowerCase(env) = "false" THEN "false"
  ELSE IF codeql # Undefined /\ featureConfig[flag].minimumVersion # Undefined
  THEN "version"
  ELSE "continue"

\* Features.getValue after the version check, lines 116-122
AfterVersionCheck(env) ==
  IF toLocaleLowerCase(env) = "true" THEN "true" ELSE "api"

\* util.GitHubVariant
GitHubVariants == {"DOTCOM", "GHES", "GHAE"}

\* FeatureFlagsApiResponse, line 51: some flags mapped to booleans
NoFlags == [f \in {} |-> TRUE]

ApiResponses ==
  { NoFlags,
    [f \in Feature |-> TRUE],
    ("ml_powered_queries_enabled" :> FALSE) @@ ("trap_caching_enabled" :> TRUE) }

\* the errors client.request can throw
RequestErrors ==
  { [isHTTPError |-> TRUE, status |-> 403],
    [isHTTPError |-> TRUE, status |-> 500],
    [isHTTPError |-> FALSE, status |-> 0] }

\* the catch of loadApiResponse, lines 181-198, taking every HTTP error
\* for a missing permission
loadApiResponseCatch_AnyHttpError(e) ==
  IF e.isHTTPError THEN "warning" ELSE "throw"

\* the catch of loadApiResponse, lines 181-198
loadApiResponseCatch(e) ==
  IF e.isHTTPError /\ e.status = 403 THEN "warning" ELSE "throw"

\* GitHubFeatureFlags.getValue after the response, lines 140-153, reporting
\* a missing flag as enabled
flagValue_MissingEnabled(apiResponse, flag) ==
  IF apiResponse = Undefined THEN FALSE
  ELSE IF flag \notin DOMAIN apiResponse[1] THEN TRUE
  ELSE apiResponse[1][flag]

\* GitHubFeatureFlags.getValue after the response, lines 140-153
flagValue(apiResponse, flag) ==
  IF apiResponse = Undefined THEN FALSE
  ELSE IF flag \notin DOMAIN apiResponse[1] THEN FALSE
  ELSE apiResponse[1][flag]

\* a caller that has no call of getValue in progress
IdleCall ==
  [ pc |-> "idle", flag |-> "none", codeql |-> Undefined, envVar |-> "",
    testMode |-> FALSE, requests |-> 0, source |-> "none",
    failure |-> Undefined, apiResponse |-> Undefined, warned |-> FALSE,
    value |-> Undefined, error |-> "none" ]

(***************************************************************************)
(* State.                                                                  *)
(***************************************************************************)
VARIABLES
  pc,              \* position of the invocation in downloadAndExtract
  codeqlURL,       \* the source URL of the request
  platform,        \* process.platform of the process running the invocation
  compressionMethod, \* result of tar.inferCompressionMethod, "none" before
  streamCalls,     \* calls of downloadAndExtractZstdWithStreaming
  bufferedCalls,   \* times the buffered strategy was started (line 130)
  response,        \* the HTTP response stream: "none", "pending", "open", "ended"
  statusCode,      \* response.statusCode, 0 before a response
  streamFailure,   \* why the streaming attempt failed, "none" if it did not
  warnings,        \* the core.warning messages, in order
  dest,            \* path.join(tempDir, uuidV4()), 0 before line 130
  files,           \* the archive files that exist in tempDir
  download,        \* outcome of toolcache.downloadTool
  extraction,      \* outcome of tar.extract
  cleanup,         \* outcome of cleanUpGlob
  cleanupCalls,    \* calls of cleanUpGlob
  elapsed,         \* measured times in half milliseconds, per phase
  extractedBundlePath, \* directory reported by the extraction, 0 before
  result,          \* value the call returned: <<>> or <<record>>
  thrown,          \* error the call threw, "none" if none
  authorization,   \* the authorization argument: <<>> or <<value>>
  headers,         \* the headers argument: header name -> value
  proxy,           \* what getProxyUrl yields for the source URL: <<>> or <<url>>
  request,         \* the request given to https.get: <<>> or <<record>>
  httpRequests,    \* calls of https.get
  extractTarZstCalls, \* calls of tar.extractTarZst with the response
  raised           \* error raised by downloadTool or tar.extract, "none" if none

\* Features and GitHubFeatureFlags (src/unnamed/part_000)
VARIABLES
  gitHubVersion,      \* gitHubVersion.type of the GitHubFeatureFlags instance
  cachedApiResponse,  \* its cachedApiResponse: <<>> or <<response>>
  apiRequests,        \* requests made to the feature flags endpoint
  started,            \* calls of Features.getValue made so far
  calls               \* the calls of Features.getValue in progress, by caller

featureVars == << gitHubVersion, cachedApiResponse, apiRequests, started, calls >>

downloadVars == << pc, codeqlURL, platform, compressionMethod, streamCalls,
           bufferedCalls, response, statusCode, streamFailure, warnings,
           dest, files, download, extraction, cleanup, cleanupCalls,
           elapsed, extractedBundlePath, result, thrown, authorization,
           headers, proxy, request, httpRequests, extractTarZstCalls, raised >>

vars == << pc, codeqlURL, platform, compressionMethod, streamCalls,
           bufferedCalls, response, statusCode, streamFailure, warnings,
           dest, files, download, extraction, cleanup, cleanupCalls,
           elapsed, extractedBundlePath, result, thrown, authorization,
           headers, proxy, request, httpRequests, extractTarZstCalls, raised,
           gitHubVersion, cachedApiResponse, apiRequests, started, calls >>

HttpStatuses == {200, 204, 404}

NoElapsed == [combined |-> Undefined, download |-> Undefined, extraction |-> Undefined]

FallbackWarning == "Failed to download and extract CodeQL bundle using streaming. Falling back to downloading the bundle before extracting."

Init ==
  /\ pc = [p \in Procs |-> "idle"]
  /\ codeqlURL = [p \in Procs |-> <<>>]
  /\ platform = [p \in Procs |-> "none"]
  /\ compressionMethod = [p \in Procs |-> "none"]
  /\ streamCalls = [p \in Procs |-> 0]
  /\ bufferedCalls = [p \in Procs |-> 0]
  /\ response = [p \in Procs |-> "none"]
  /\ statusCode = [p \in Procs |-> 0]
  /\ streamFailure = [p \in Procs |-> "none"]
  /\ warnings = [p \in Procs |-> <<>>]
  /\ dest = [p \in Procs |-> 0]
  /\ files = {}
  /\ download = [p \in Procs |-> "none"]
  /\ extraction = [p \in Procs |-> "none"]
  /\ cleanup = [p \in Procs |-> "none"]
  /\ cleanupCalls = [p \in Procs |-> 0]
  /\ elapsed = [p \in Procs |-> NoElapsed]
  /\ extractedBundlePath = [p \in Procs |-> 0]
  /\ result = [p \in Procs |-> <<>>]
  /\ thrown = [p \in Procs |-> "none"]
  /\ authorization = [p \in Procs |-> Undefined]
  /\ headers = [p \in Procs |-> NoHeaders]
  /\ proxy = [p \in Procs |-> Undefined]
  /\ request = [p \in Procs |-> Undefined]
  /\ httpRequests = [p \in Procs |-> 0]
  /\ extractTarZstCalls = [p \in Procs |-> 0]
  /\ raised = [p \in Procs |-> "none"]
  /\ gitHubVersion = "none"
  /\ cachedApiResponse = Undefined
  /\ apiRequests = 0
  /\ started = 0
  /\ calls = [c \in Callers |-> IdleCall]

(***************************************************************************)
(* downloadAndExtract, lines 75-93.                                        *)
(***************************************************************************)
\* the call with a source URL among urls, on some platform, with arguments
\* and a proxy setting among those given; lines 75-88
Call(p, urls, auths, callerHeaders, proxies) ==
  /\ pc[p] = "idle"
  /\ \E u \in urls, pf \in Platforms :
       /\ codeqlURL' = [codeqlURL EXCEPT ![p] = u]
       /\ platform' = [platform EXCEPT ![p] = pf]
  /\ \E a \in auths, h \in callerHeaders, px \in proxies :
       /\ authorization' = [authorization EXCEPT ![p] = a]
       /\ headers' = [headers EXCEPT ![p] = h]
       /\ proxy' = [proxy EXCEPT ![p] = px]
  /\ pc' = [pc EXCEPT ![p] = "classify"]
  /\ UNCHANGED << compressionMethod, streamCalls, bufferedCalls, response,
                  statusCode, streamFailure, warnings, dest, files, download,
                  extraction, cleanup, cleanupCalls, elapsed,
                  extractedBundlePath, result, thrown >>
  /\ UNCHANGED << request, httpRequests, extractTarZstCalls, raised >>
  /\ UNCHANGED featureVars

\* a call with any request
Invoke(p) == Call(p, Urls, Authorizations, CallerHeaders, ProxySettings)

\* a call with the source URL of the invocations already made, without
\* authorization, headers or proxy
InvokeSameRequest(p) ==
  Call(p, {u \in Urls : \A q \in Procs : pc[q] = "idle" \/ codeqlURL[q] = u},
       {Undefined}, {NoHeaders}, {Undefined})

\* the streaming attempt throws: control reaches the catch of line 123
StreamThrow(p, reason) ==
  /\ streamFailure' = [streamFailure EXCEPT ![p] = reason]
  /\ pc' = [pc EXCEPT ![p] = "stream_catch"]

\* mutant: the classification of line 90 is inside the try of line 92, so its
\* error is caught and the buffered strategy runs
Classify_InsideTry(p) ==
  /\ pc[p] = "classify"
  /\ LET m == inferCompressionMethod(codeqlURL[p]) IN
       IF m = UnrecognizedFormat
       THEN /\ StreamThrow(p, UnrecognizedFormat)
            /\ UNCHANGED << compressionMethod, streamCalls >>
       ELSE /\ compressionMethod' = [compressionMethod EXCEPT ![p] = m]
            /\ IF StreamingEligible(m, platform[p])
               THEN /\ streamCalls' = [streamCalls EXCEPT ![p] = @ + 1]
                    /\ pc' = [pc EXCEPT ![p] = "stream_proxy"]
               ELSE /\ pc' = [pc EXCEPT ![p] = "buffered_start"]
                    /\ UNCHANGED streamCalls
            /\ UNCHANGED streamFailure
  /\ UNCHANGED << codeqlURL, platform, bufferedCalls, response, statusCode,
                  warnings, dest, files, download, extraction, thrown,
                  cleanup, cleanupCalls, elapsed, extractedBundlePath, result >>
  /\ UNCHANGED << authorization, headers, proxy, request, httpRequests, extractTarZstCalls, raised >>
  /\ UNCHANGED featureVars

\* line 90 and the condition of line 93
Classify(p) ==
  /\ pc[p] = "classify"
  /\ LET m == inferCompressionMethod(codeqlURL[p]) IN
       IF m = UnrecognizedFormat
       THEN /\ thrown' = [thrown EXCEPT ![p] = UnrecognizedFormat]
            /\ pc' = [pc EXCEPT ![p] = "failed"]
            /\ UNCHANGED << compressionMethod, streamCalls >>
       ELSE /\ compressionMethod' = [compressionMethod EXCEPT ![p] = m]
            /\ IF StreamingEligible(m, platform[p])
               THEN /\ streamCalls' = [streamCalls EXCEPT ![p] = @ + 1]
                    /\ pc' = [pc EXCEPT ![p] = "stream_proxy"]
               ELSE /\ pc' = [pc EXCEPT ![p] = "buffered_start"]
                    /\ UNCHANGED streamCalls
            /\ UNCHANGED thrown
  /\ UNCHANGED << codeqlURL, platform, bufferedCalls, response, statusCode,
                  streamFailure, warnings, dest, files, download, extraction,
                  cleanup, cleanupCalls, elapsed, extractedBundlePath, result >>
  /\ UNCHANGED << authorization, headers, proxy, request, httpRequests, extractTarZstCalls, raised >>
  /\ UNCHANGED featureVars

(***************************************************************************)
(* downloadAndExtractZstdWithStreaming, lines 182-215, called at line 97.  *)
(***************************************************************************)
\* line 190: adjustUrlByProxy builds new URL(url), which throws on a text
\* that is no absolute URL; the headers of lines 192-196 are built
AdjustUrlByProxy(p) ==
  /\ pc[p] = "stream_proxy"
  /\ IF IsAbsoluteUrl(codeqlURL[p])
     THEN /\ pc' = [pc EXCEPT ![p] = "stream_get"]
          /\ UNCHANGED streamFailure
     ELSE StreamThrow(p, "InvalidUrl")
  /\ UNCHANGED << codeqlURL, platform, compressionMethod, streamCalls,
                  bufferedCalls, response, statusCode, warnings, dest, files,
                  download, extraction, cleanup, cleanupCalls, elapsed,
                  extractedBundlePath, result, thrown >>
  /\ UNCHANGED << authorization, headers, proxy, request, httpRequests, extractTarZstCalls, raised >>
  /\ UNCHANGED featureVars

\* lines 197-206: https.get is given downloadUrl, which is both where it
\* connects and what it asks for, and the headers; the invocation then
\* awaits a promise that only the response callback resolves
HttpsGet(p) ==
  /\ pc[p] = "stream_get"
  /\ LET downloadUrl == DownloadUrl(codeqlURL[p], proxy[p]) IN
       request' = [request EXCEPT ![p] = Some(
         [ connectTo |-> downloadUrl,
           resource |-> downloadUrl,
           headers |-> StreamingHeaders(authorization[p], headers[p]) ])]
  /\ httpRequests' = [httpRequests EXCEPT ![p] = @ + 1]
  /\ response' = [response EXCEPT ![p] = "pending"]
  /\ pc' = [pc EXCEPT ![p] = "await_response"]
  /\ UNCHANGED << codeqlURL, platform, compressionMethod, streamCalls,
                  bufferedCalls, statusCode, streamFailure, warnings, dest,
                  files, download, extraction, cleanup, cleanupCalls, elapsed,
                  extractedBundlePath, result, thrown >>
  /\ UNCHANGED << authorization, headers, proxy, extractTarZstCalls, raised >>
  /\ UNCHANGED featureVars

\* line 204: a response arrives and resolves the promise
ResponseArrives(p) ==
  /\ pc[p] = "await_response"
  /\ \E st \in HttpStatuses : statusCode' = [statusCode EXCEPT ![p] = st]
  /\ response' = [response EXCEPT ![p] = "open"]
  /\ pc' = [pc EXCEPT ![p] = "check_status"]
  /\ UNCHANGED << codeqlURL, platform, compressionMethod, streamCalls,
                  bufferedCalls, streamFailure, warnings, dest, files,
                  download, extraction, cleanup, cleanupCalls, elapsed,
                  extractedBundlePath, result, thrown >>
  /\ UNCHANGED << authorization, headers, proxy, request, httpRequests, extractTarZstCalls, raised >>
  /\ UNCHANGED featureVars

\* lines 197-206: the request fails before any response (connection refused,
\* name not resolved).  The promise has no reject path and the request no
\* 'error' listener: the error is raised outside the invocation and the
\* promise is never settled, so the invocation never resumes.
RequestError(p) ==
  /\ pc[p] = "await_response"
  /\ response' = [response EXCEPT ![p] = "ended"]
  /\ streamFailure' = [streamFailure EXCEPT ![p] = "RequestError"]
  /\ pc' = [pc EXCEPT ![p] = "never_resumed"]
  /\ UNCHANGED << codeqlURL, platform, compressionMethod, streamCalls,
                  bufferedCalls, statusCode, warnings, dest, files, download,
                  extraction, cleanup, cleanupCalls, elapsed,
                  extractedBundlePath, result, thrown >>
  /\ UNCHANGED << authorization, headers, proxy, request, httpRequests, extractTarZstCalls, raised >>
  /\ UNCHANGED featureVars

\* mutant: the status is not looked at and every response is extracted
CheckStatusCode_AnyStatus(p) ==
  /\ pc[p] = "check_status"
  /\ pc' = [pc EXCEPT ![p] = "stream_extract"]
  /\ extractTarZstCalls' = [extractTarZstCalls EXCEPT ![p] = @ + 1]
  /\ UNCHANGED << codeqlURL, platform, compressionMethod, streamCalls,
                  bufferedCalls, response, statusCode, warnings, dest, files,
                  download, extraction, cleanup, cleanupCalls, elapsed,
                  extractedBundlePath, result, thrown, streamFailure >>
  /\ UNCHANGED << authorization, headers, proxy, request, httpRequests, raised >>
  /\ UNCHANGED featureVars

\* lines 208-212: a status other than 200 throws; the response is neither
\* consumed nor destroyed
CheckStatusCode(p) ==
  /\ pc[p] = "check_status"
  /\ IF statusCode[p] # 200
     THEN /\ StreamThrow(p, "HttpStatus")
          /\ UNCHANGED extractTarZstCalls
     ELSE /\ pc' = [pc EXCEPT ![p] = "stream_extract"]
          /\ extractTarZstCalls' = [extractTarZstCalls EXCEPT ![p] = @ + 1]
          /\ UNCHANGED streamFailure
  /\ UNCHANGED << codeqlURL, platform, compressionMethod, streamCalls,
                  bufferedCalls, response, statusCode, warnings, dest, files,
                  download, extraction, cleanup, cleanupCalls, elapsed,
                  extractedBundlePath, result, thrown >>
  /\ UNCHANGED << authorization, headers, proxy, request, httpRequests, raised >>
  /\ UNCHANGED featureVars

\* line 214: tar.extractTarZst consumes the response; it returns the
\* extracted directory or throws.  On return lines 105-107 take the time.
ExtractTarZst(p) ==
  /\ pc[p] = "stream_extract"
  /\ response' = [response EXCEPT ![p] = "ended"]
  /\ \/ \E dir \in ExtractDirs, t \in Elapsed :
          /\ extractedBundlePath' = [extractedBundlePath EXCEPT ![p] = dir]
          /\ elapsed' = [elapsed EXCEPT ![p].combined = Some(t)]
          /\ pc' = [pc EXCEPT ![p] = "stream_return"]
          /\ UNCHANGED streamFailure
     \/ /\ StreamThrow(p, "ExtractionError")
        /\ UNCHANGED << extractedBundlePath, elapsed >>
  /\ UNCHANGED << codeqlURL, platform, compressionMethod, streamCalls,
                  bufferedCalls, statusCode, warnings, dest, files, download,
                  extraction, cleanup, cleanupCalls, result, thrown >>
  /\ UNCHANGED << authorization, headers, proxy, request, httpRequests, extractTarZstCalls, raised >>
  /\ UNCHANGED featureVars

\* mutant: the return of line 114 is missing and control falls to line 130
StreamReturn_FallsThrough(p) ==
  /\ pc[p] = "stream_return"
  /\ pc' = [pc EXCEPT ![p] = "buffered_start"]
  /\ UNCHANGED << codeqlURL, platform, compressionMethod, streamCalls,
                  bufferedCalls, response, statusCode, streamFailure, warnings,
                  dest, files, download, extraction, cleanup, cleanupCalls,
                  elapsed, extractedBundlePath, result, thrown >>
  /\ UNCHANGED << authorization, headers, proxy, request, httpRequests, extractTarZstCalls, raised >>
  /\ UNCHANGED featureVars

\* lines 105-121: the streamed result
StreamReturn(p) ==
  /\ pc[p] = "stream_return"
  /\ LET combinedDurationMs == MathRound(elapsed[p].combined[1]) IN
       result' = [result EXCEPT ![p] = Some(
         [ extractedBundlePath |-> extractedBundlePath[p],
           statusReport |-> StatusReport(compressionMethod[p], codeqlURL[p],
              makeStreamedToolsDownloadDurations(combinedDurationMs)) ])]
  /\ pc' = [pc EXCEPT ![p] = "done"]
  /\ UNCHANGED << codeqlURL, platform, compressionMethod, streamCalls,
                  bufferedCalls, response, statusCode, streamFailure, warnings,
                  dest, files, download, extraction, cleanup, cleanupCalls,
                  elapsed, extractedBundlePath, thrown >>
  /\ UNCHANGED << authorization, headers, proxy, request, httpRequests, extractTarZstCalls, raised >>
  /\ UNCHANGED featureVars

\* lines 123-128: the catch logs two warnings and falls through to line 130
StreamCatch(p) ==
  /\ pc[p] = "stream_catch"
  /\ warnings' = [warnings EXCEPT ![p] = @ \o <<FallbackWarning, streamFailure[p]>>]
  /\ pc' = [pc EXCEPT ![p] = "buffered_start"]
  /\ UNCHANGED << codeqlURL, platform, compressionMethod, streamCalls,
                  bufferedCalls, response, statusCode, streamFailure, dest,
                  files, download, extraction, cleanup, cleanupCalls, elapsed,
                  extractedBundlePath, result, thrown >>
  /\ UNCHANGED << authorization, headers, proxy, request, httpRequests, extractTarZstCalls, raised >>
  /\ UNCHANGED featureVars

(***************************************************************************)
(* The buffered strategy, lines 130-179.                                   *)
(***************************************************************************)
\* uuidV4 hands out an identifier that no other invocation was given
FreshUuids == Uuids \ {dest[q] : q \in Procs}

\* mutant: the archive gets a fixed name in tempDir instead of a fresh one
BufferedStart_FixedName(p) ==
  /\ pc[p] = "buffered_start"
  /\ dest' = [dest EXCEPT ![p] = 1]
  /\ bufferedCalls' = [bufferedCalls EXCEPT ![p] = @ + 1]
  /\ pc' = [pc EXCEPT ![p] = "await_download"]
  /\ UNCHANGED << codeqlURL, platform, compressionMethod, streamCalls,
                  response, statusCode, streamFailure, warnings, files,
                  download, extraction, cleanup, cleanupCalls, elapsed,
                  extractedBundlePath, result, thrown >>
  /\ UNCHANGED << authorization, headers, proxy, request, httpRequests, extractTarZstCalls, raised >>
  /\ UNCHANGED featureVars

\* lines 130-138: the destination is named and the download starts
BufferedStart(p) ==
  /\ pc[p] = "buffered_start"
  /\ \E id \in FreshUuids : dest' = [dest EXCEPT ![p] = id]
  /\ bufferedCalls' = [bufferedCalls EXCEPT ![p] = @ + 1]
  /\ pc' = [pc EXCEPT ![p] = "await_download"]
  /\ UNCHANGED << codeqlURL, platform, compressionMethod, streamCalls,
                  response, statusCode, streamFailure, warnings, files,
                  download, extraction, cleanup, cleanupCalls, elapsed,
                  extractedBundlePath, result, thrown >>
  /\ UNCHANGED << authorization, headers, proxy, request, httpRequests, extractTarZstCalls, raised >>
  /\ UNCHANGED featureVars

\* lines 133-139: toolcache.downloadTool writes the archive to dest and
\* returns, or throws; a failed download may leave a partial file behind.
\* The await is outside the try of line 150: a throw leaves the function.
DownloadTool(p) ==
  /\ pc[p] = "await_download"
  /\ \/ /\ IsAbsoluteUrl(codeqlURL[p])
        /\ \E t \in Elapsed : elapsed' = [elapsed EXCEPT ![p].download = Some(t)]
        /\ files' = files \cup {dest[p]}
        /\ download' = [download EXCEPT ![p] = "ok"]
        /\ pc' = [pc EXCEPT ![p] = "buffered_extract"]
        /\ UNCHANGED << thrown, raised >>
     \/ /\ \E partial \in BOOLEAN :
             files' = IF partial THEN files \cup {dest[p]} ELSE files
        /\ download' = [download EXCEPT ![p] = "failed"]
        /\ \E e \in DownloadErrors :
             /\ raised' = [raised EXCEPT ![p] = e]
             /\ thrown' = [thrown EXCEPT ![p] = e]
        /\ pc' = [pc EXCEPT ![p] = "failed"]
        /\ UNCHANGED elapsed
  /\ UNCHANGED << codeqlURL, platform, compressionMethod, streamCalls,
                  bufferedCalls, response, statusCode, streamFailure, warnings,
                  dest, extraction, cleanup, cleanupCalls, extractedBundlePath,
                  result >>
  /\ UNCHANGED << authorization, headers, proxy, request, httpRequests, extractTarZstCalls >>
  /\ UNCHANGED featureVars

\* lines 150-164: tar.extract on the archive returns the extracted
\* directory, and line 159 takes the time, or it throws; either way control
\* reaches the finally of line 165
TarExtract(p) ==
  /\ pc[p] = "buffered_extract"
  /\ \/ \E dir \in ExtractDirs, t \in Elapsed :
          /\ extractedBundlePath' = [extractedBundlePath EXCEPT ![p] = dir]
          /\ elapsed' = [elapsed EXCEPT ![p].extraction = Some(t)]
          /\ extraction' = [extraction EXCEPT ![p] = "ok"]
          /\ UNCHANGED raised
     \/ /\ extraction' = [extraction EXCEPT ![p] = "failed"]
        /\ \E e \in ExtractionErrors : raised' = [raised EXCEPT ![p] = e]
        /\ UNCHANGED << extractedBundlePath, elapsed >>
  /\ pc' = [pc EXCEPT ![p] = "finally"]
  /\ UNCHANGED << codeqlURL, platform, compressionMethod, streamCalls,
                  bufferedCalls, response, statusCode, streamFailure, warnings,
                  dest, files, download, cleanup, cleanupCalls, result, thrown >>
  /\ UNCHANGED << authorization, headers, proxy, request, httpRequests, extractTarZstCalls >>
  /\ UNCHANGED featureVars

\* mutant: the cleanup follows the try instead of being its finally, so a
\* failed extraction leaves the function before it
CleanUpGlob_NoFinally(p) ==
  /\ pc[p] = "finally"
  /\ IF extraction[p] = "failed"
     THEN /\ thrown' = [thrown EXCEPT ![p] = raised[p]]
          /\ pc' = [pc EXCEPT ![p] = "failed"]
          /\ UNCHANGED << files, cleanup, cleanupCalls >>
     ELSE /\ cleanupCalls' = [cleanupCalls EXCEPT ![p] = @ + 1]
          /\ \/ /\ files' = files \ {dest[p]}
                /\ cleanup' = [cleanup EXCEPT ![p] = "deleted"]
             \/ /\ cleanup' = [cleanup EXCEPT ![p] = "failed"]
                /\ UNCHANGED files
          /\ pc' = [pc EXCEPT ![p] = "buffered_return"]
          /\ UNCHANGED thrown
  /\ UNCHANGED << codeqlURL, platform, compressionMethod, streamCalls,
                  bufferedCalls, response, statusCode, streamFailure, warnings,
                  dest, download, extraction, elapsed, extractedBundlePath,
                  result >>
  /\ UNCHANGED << authorization, headers, proxy, request, httpRequests, extractTarZstCalls, raised >>
  /\ UNCHANGED featureVars

\* mutant: a failed deletion throws out of the finally and replaces the
\* error of the extraction
CleanUpGlob_Throws(p) ==
  /\ pc[p] = "finally"
  /\ cleanupCalls' = [cleanupCalls EXCEPT ![p] = @ + 1]
  /\ \/ /\ files' = files \ {dest[p]}
        /\ cleanup' = [cleanup EXCEPT ![p] = "deleted"]
        /\ IF extraction[p] = "failed"
           THEN /\ thrown' = [thrown EXCEPT ![p] = raised[p]]
                /\ pc' = [pc EXCEPT ![p] = "failed"]
           ELSE /\ pc' = [pc EXCEPT ![p] = "buffered_return"]
                /\ UNCHANGED thrown
     \/ /\ cleanup' = [cleanup EXCEPT ![p] = "failed"]
        /\ thrown' = [thrown EXCEPT ![p] = "CleanupError"]
        /\ pc' = [pc EXCEPT ![p] = "failed"]
        /\ UNCHANGED files
  /\ UNCHANGED << codeqlURL, platform, compressionMethod, streamCalls,
                  bufferedCalls, response, statusCode, streamFailure, warnings,
                  dest, download, extraction, elapsed, extractedBundlePath,
                  result >>
  /\ UNCHANGED << authorization, headers, proxy, request, httpRequests, extractTarZstCalls, raised >>
  /\ UNCHANGED featureVars

\* lines 165-167: cleanUpGlob deletes the archive, or fails and only logs;
\* then the error of the extraction, if any, leaves the function
CleanUpGlob(p) ==
  /\ pc[p] = "finally"
  /\ cleanupCalls' = [cleanupCalls EXCEPT ![p] = @ + 1]
  /\ \/ /\ files' = files \ {dest[p]}
        /\ cleanup' = [cleanup EXCEPT ![p] = "deleted"]
     \/ /\ cleanup' = [cleanup EXCEPT ![p] = "failed"]
        /\ UNCHANGED files
  /\ IF extraction[p] = "failed"
     THEN /\ thrown' = [thrown EXCEPT ![p] = raised[p]]
          /\ pc' = [pc EXCEPT ![p] = "failed"]
     ELSE /\ pc' = [pc EXCEPT ![p] = "buffered_return"]
          /\ UNCHANGED thrown
  /\ UNCHANGED << codeqlURL, platform, compressionMethod, streamCalls,
                  bufferedCalls, response, statusCode, streamFailure, warnings,
                  dest, download, extraction, elapsed, extractedBundlePath,
                  result >>
  /\ UNCHANGED << authorization, headers, proxy, request, httpRequests, extractTarZstCalls, raised >>
  /\ UNCHANGED featureVars

\* lines 169-179: the buffered result
BufferedReturn(p) ==
  /\ pc[p] = "buffered_return"
  /\ LET downloadDurationMs == MathRound(elapsed[p].download[1])
         extractionDurationMs == MathRound(elapsed[p].extraction[1])
     IN result' = [result EXCEPT ![p] = Some(
         [ extractedBundlePath |-> extractedBundlePath[p],
           statusReport |-> StatusReport(compressionMethod[p], codeqlURL[p],
              makeDownloadFirstToolsDownloadDurations(downloadDurationMs,
                                                      extractionDurationMs)) ])]
  /\ pc' = [pc EXCEPT ![p] = "done"]
  /\ UNCHANGED << codeqlURL, platform, compressionMethod, streamCalls,
                  bufferedCalls, response, statusCode, streamFailure, warnings,
                  dest, files, download, extraction, cleanup, cleanupCalls,
                  elapsed, extractedBundlePath, thrown >>
  /\ UNCHANGED << authorization, headers, proxy, request, httpRequests, extractTarZstCalls, raised >>
  /\ UNCHANGED featureVars

(***************************************************************************)
(* Specification.                                                          *)
(***************************************************************************)
\* one step of an invocation after its call
Step(p) ==
  \/ Classify(p)
  \/ AdjustUrlByProxy(p)
  \/ HttpsGet(p)
  \/ ResponseArrives(p)
  \/ RequestError(p)
  \/ CheckStatusCode(p)
  \/ ExtractTarZst(p)
  \/ StreamReturn(p)
  \/ StreamCatch(p)
  \/ BufferedStart(p)
  \/ DownloadTool(p)
  \/ TarExtract(p)
  \/ CleanUpGlob(p)
  \/ BufferedReturn(p)

\* one invocation of downloadAndExtract, any request
Next == Invoke("inv1") \/ Step("inv1")

Spec == Init /\ [][Next]_vars

\* two invocations of downloadAndExtract with the same source URL, interleaved
PairNext == \E p \in Procs : InvokeSameRequest(p) \/ Step(p)

PairSpec == Init /\ [][PairNext]_vars

(***************************************************************************)
(* Features and GitHubFeatureFlags: one instance, overlapping calls.       *)
(***************************************************************************)
\* new Features(gitHubVersion, ...), lines 61-73 and 129-136
NewFeatures ==
  /\ gitHubVersion = "none"
  /\ gitHubVersion' \in GitHubVariants
  /\ UNCHANGED << cachedApiResponse, apiRequests, started, calls >>
  /\ UNCHANGED downloadVars

\* the call of caller c returns value
ReturnValue(c, call, value) ==
  calls' = [calls EXCEPT ![c] = [call EXCEPT !.pc = "returned", !.value = Some(value)]]

\* the call of caller c throws error
ThrowError(c, call, error) ==
  calls' = [calls EXCEPT ![c] = [call EXCEPT !.pc = "threw", !.error = error]]

\* getApiResponse up to its first await, lines 157-160, and the part of
\* loadApiResponse before its await, lines 165-179
getApiResponse(c, call) ==
  IF cachedApiResponse # Undefined
  THEN /\ calls' = [calls EXCEPT ![c] =
                      [call EXCEPT !.pc = "got_response", !.source = "cache",
                                   !.apiResponse = cachedApiResponse]]
       /\ cachedApiResponse' = cachedApiResponse
       /\ UNCHANGED apiRequests
  ELSE IF gitHubVersion # "DOTCOM"
  THEN /\ calls' = [calls EXCEPT ![c] =
                      [call EXCEPT !.pc = "await_load", !.source = "not_dotcom"]]
       /\ UNCHANGED << cachedApiResponse, apiRequests >>
  ELSE /\ calls' = [calls EXCEPT ![c] =
                      [call EXCEPT !.pc = "await_load", !.source = "request",
                                   !.requests = call.requests + 1]]
       /\ apiRequests' = apiRequests + 1
       /\ UNCHANGED cachedApiResponse

\* Features.getValue from line 116 to its next await
FromEnvTrue(c, call) ==
  IF AfterVersionCheck(call.envVar) = "true"
  THEN /\ ReturnValue(c, call, TRUE)
       /\ UNCHANGED << cachedApiResponse, apiRequests >>
  ELSE getApiResponse(c, call)

\* Features.getValue(flag, codeql) is called and runs to its first await,
\* its return or its throw; lines 87-122
getValue(c) ==
  /\ gitHubVersion # "none"
  /\ calls[c].pc = "idle"
  /\ started < MaxCalls
  /\ started' = started + 1
  /\ \E flag \in Feature, codeql \in CodeQLs, env \in EnvValues, testMode \in BOOLEAN :
       LET call == [IdleCall EXCEPT !.flag = flag, !.codeql = codeql,
                                    !.envVar = env, !.testMode = testMode]
           next == BeforeVersionCheck(flag, codeql, env, testMode)
       IN  CASE next = "throw" ->
                  /\ ThrowError(c, call, "InternalError")
                  /\ UNCHANGED << cachedApiResponse, apiRequests >>
             [] next = "false" ->
                  /\ ReturnValue(c, call, FALSE)
                  /\ UNCHANGED << cachedApiResponse, apiRequests >>
             [] next = "version" ->
                  /\ calls' = [calls EXCEPT ![c] = [call EXCEPT !.pc = "await_version"]]
                  /\ UNCHANGED << cachedApiResponse, apiRequests >>
             [] OTHER -> FromEnvTrue(c, call)
  /\ UNCHANGED gitHubVersion
  /\ UNCHANGED downloadVars

\* util.codeQlVersionAbove has answered; lines 111-122
VersionChecked(c) ==
  /\ calls[c].pc = "await_version"
  /\ IF ~codeQlVersionAbove(calls[c].codeql,
                            featureConfig[calls[c].flag].minimumVersion[1])
     THEN /\ ReturnValue(c, calls[c], FALSE)
          /\ UNCHANGED << cachedApiResponse, apiRequests >>
     ELSE FromEnvTrue(c, calls[c])
  /\ UNCHANGED << gitHubVersion, started >>
  /\ UNCHANGED downloadVars

\* loadApiResponse settles and getApiResponse stores what it gave;
\* lines 169, 180-198 and 158-160
LoadSettles(c) ==
  /\ calls[c].pc = "await_load"
  /\ IF calls[c].source = "not_dotcom"
     THEN /\ calls' = [calls EXCEPT ![c].pc = "got_response",
                                    ![c].apiResponse = Some(NoFlags)]
          /\ cachedApiResponse' = Some(NoFlags)
     ELSE \/ \E data \in ApiResponses :
               /\ calls' = [calls EXCEPT ![c].pc = "got_response",
                                         ![c].source = "data",
                                         ![c].apiResponse = Some(data)]
               /\ cachedApiResponse' = Some(data)
          \/ \E e \in RequestErrors :
               IF loadApiResponseCatch(e) = "warning"
               THEN /\ calls' = [calls EXCEPT ![c].pc = "got_response",
                                              ![c].source = "forbidden",
                                              ![c].failure = Some(e),
                                              ![c].warned = TRUE,
                                              ![c].apiResponse = Undefined]
                    /\ cachedApiResponse' = Undefined
               ELSE /\ ThrowError(c, [calls[c] EXCEPT !.source = "error",
                                                   !.failure = Some(e)],
                                  "LoadError")
                    /\ UNCHANGED cachedApiResponse
  /\ UNCHANGED << gitHubVersion, apiRequests, started >>
  /\ UNCHANGED downloadVars

\* GitHubFeatureFlags.getValue resumes with the response and getValue
\* returns what it reports; lines 139-153 and 122
GitHubGetValue(c) ==
  /\ calls[c].pc = "got_response"
  /\ ReturnValue(c, calls[c], flagValue(calls[c].apiResponse, calls[c].flag))
  /\ UNCHANGED << gitHubVersion, cachedApiResponse, apiRequests, started >>
  /\ UNCHANGED downloadVars

\* the caller has its answer and may call again
Finish(c) ==
  /\ calls[c].pc \in {"returned", "threw"}
  /\ calls' = [calls EXCEPT ![c] = IdleCall]
  /\ UNCHANGED << gitHubVersion, cachedApiResponse, apiRequests, started >>
  /\ UNCHANGED downloadVars

FeaturesStep(c) ==
  \/ getValue(c)
  \/ VersionChecked(c)
  \/ LoadSettles(c)
  \/ GitHubGetValue(c)
  \/ Finish(c)

\* calls of getValue on one Features instance, in sequence or overlapping
FeaturesNext == NewFeatures \/ \E c \in Callers : FeaturesStep(c)

FeaturesSpec == Init /\ [][FeaturesNext]_vars

TypeOK ==
  /\ \A p \in Procs : dest[p] \in Uuids \cup {0}
  /\ files \subseteq Uuids

(***************************************************************************)
(* Vocabulary of the properties.                                           *)
(***************************************************************************)
\* the invocation has returned, has thrown, or can never resume
Returned(p) == pc[p] = "done"
Threw(p) == pc[p] = "failed"
Settled(p) == Returned(p) \/ Threw(p)

\* the status report of a call that returned
Report(p) == result[p][1].statusReport

\* the streaming attempt ran to its end and produced the extracted directory
StreamSucceeded(p) == elapsed[p].combined # Undefined

\* the buffered strategy has begun its download
BufferedBegun(p) == bufferedCalls[p] >= 1

\* the invocation can take no further step
Ended(p) == Settled(p) \/ pc[p] = "never_resumed"

SameBufferedOutcomes(p, q) ==
  /\ codeqlURL[p] = codeqlURL[q]
  /\ download[p] = download[q]
  /\ extraction[p] = extraction[q]
  /\ cleanup[p] = cleanup[q]
  /\ elapsed[p].download = elapsed[q].download
  /\ elapsed[p].extraction = elapsed[q].extraction
  /\ extractedBundlePath[p] = extractedBundlePath[q]
  /\ raised[p] = raised[q]

SameOutcome(p, q) ==
  /\ pc[p] = pc[q]
  /\ result[p] = result[q]
  /\ thrown[p] = thrown[q]

\* the two variants of the duration report
StreamedVariant(r) ==
  /\ r.streamExtraction = TRUE
  /\ r.downloadDurationMs = Undefined
  /\ r.extractionDurationMs = Undefined

BufferedFirstVariant(r) ==
  /\ r.streamExtraction = FALSE
  /\ r.downloadDurationMs # Undefined
  /\ r.extractionDurationMs # Undefined

\* the URL starts with the release download prefix of a trusted repository
AllowListed(url) ==
  /\ Len(url) >= 3
  /\ url[1] = "https://github.com/"
  /\ url[2] \in {"github/codeql-action", "dsp-testing/codeql-cli-nightlies"}
  /\ url[3] = "/releases/download/"

\* a 2xx status
SuccessStatus(st) == st \in 200..299

\* the call of the streaming strategy has gone past its status check, has
\* thrown, or can never resume
StreamStrategyLeft(p) ==
  /\ streamCalls[p] = 1
  /\ pc[p] \notin {"stream_proxy", "stream_get", "await_response", "check_status"}

(***************************************************************************)
(* C1.  Every failure of the streaming attempt is recoverable: whatever    *)
(* made the streaming attempt fail, the invocation is not left unable to   *)
(* resume inside the streaming attempt, and when it ends in an error the   *)
(* buffered strategy was started first.                                    *)
(***************************************************************************)
C1_StreamingFailureRecoverable ==
  \A p \in Procs :
    streamFailure[p] # "none" =>
      /\ pc[p] # "never_resumed"
      /\ Threw(p) => BufferedBegun(p)

(***************************************************************************)
(* C2.  As claimed: on every exit of the buffered strategy the temporary   *)
(* archive file no longer exists.                                          *)
(***************************************************************************)
C2_ArchiveGoneOnEveryExit ==
  \A p \in Procs :
    (BufferedBegun(p) /\ Settled(p)) => dest[p] \notin files

(***************************************************************************)
(* C2, amended.  On every exit of the buffered strategy that follows an    *)
(* extraction attempt, cleanUpGlob was called exactly once on the archive, *)
(* and the archive no longer exists if that deletion succeeded; after a    *)
(* failed download no cleanup was attempted.                               *)
(***************************************************************************)
C2_ArchiveCleanedAfterExtraction ==
  \A p \in Procs :
    (BufferedBegun(p) /\ Settled(p)) =>
      IF download[p] = "ok"
      THEN /\ cleanupCalls[p] = 1
           /\ cleanup[p] = "deleted" => dest[p] \notin files
      ELSE cleanupCalls[p] = 0

C2_Witness ==
  \E p \in Procs :
    /\ Threw(p)
    /\ extraction[p] = "failed"
    /\ cleanup[p] = "deleted"
    /\ dest[p] \notin files

(***************************************************************************)
(* C3.  The streaming strategy is called only for the zstd method on       *)
(* linux; for every other classified combination it is never called, no    *)
(* request is made, and the invocation is in the buffered strategy.        *)
(***************************************************************************)
C3_StreamingOnlyWhenEligible ==
  \A p \in Procs :
    /\ streamCalls[p] > 0 =>
         (compressionMethod[p] = "zstd" /\ platform[p] = "linux")
    /\ ( /\ compressionMethod[p] \in {"gzip", "zstd"}
         /\ ~(compressionMethod[p] = "zstd" /\ platform[p] = "linux") ) =>
         /\ streamCalls[p] = 0
         /\ response[p] = "none"
         /\ streamFailure[p] = "none"
         /\ pc[p] \in {"buffered_start", "await_download", "buffered_extract",
                       "finally", "buffered_return", "done", "failed"}

C3_Witness ==
  \E p \in Procs :
    /\ compressionMethod[p] = "zstd"
    /\ platform[p] # "linux"
    /\ streamCalls[p] = 0
    /\ Returned(p)

(***************************************************************************)
(* C4.  When the streaming attempt of an invocation has failed and the     *)
(* invocation can take no further step, the buffered strategy was started  *)
(* exactly once; and what the invocation returned or threw equals what an  *)
(* invocation that never streamed returned or threw for the same source    *)
(* URL and the same outcomes of the download, the extraction and the       *)
(* cleanup.                                                                *)
(***************************************************************************)
C4_FallbackEqualsBufferedOnly ==
  /\ \A p \in Procs :
       (streamFailure[p] # "none" /\ Ended(p)) => bufferedCalls[p] = 1
  /\ \A p, q \in Procs :
       ( /\ streamFailure[p] # "none" /\ Ended(p)
         /\ streamCalls[q] = 0 /\ Settled(q)
         /\ SameBufferedOutcomes(p, q) ) => SameOutcome(p, q)

(***************************************************************************)
(* C5.  Once the buffered download has begun, the HTTP response stream of  *)
(* the streaming attempt, if one was opened, has ended, and the invocation *)
(* is no longer inside the streaming strategy.                             *)
(***************************************************************************)
C5_StreamingFinishedBeforeBuffered ==
  \A p \in Procs :
    BufferedBegun(p) =>
      /\ response[p] \in {"none", "ended"}
      /\ pc[p] \notin {"stream_proxy", "stream_get", "await_response",
                       "check_status", "stream_extract", "stream_catch"}

(***************************************************************************)
(* C6.  An invocation makes at most one streaming run and at most one      *)
(* buffered run.  After a streaming run that succeeded the buffered        *)
(* strategy is never started (no destination named, no download, no        *)
(* cleanup) and a returned report is of the Streamed variant; a buffered   *)
(* run happens only after streaming was skipped or has failed.             *)
(***************************************************************************)
C6_AtMostOneRunOfEachStrategy ==
  \A p \in Procs :
    /\ streamCalls[p] <= 1
    /\ bufferedCalls[p] <= 1
    /\ StreamSucceeded(p) =>
         /\ bufferedCalls[p] = 0
         /\ dest[p] = 0
         /\ download[p] = "none"
         /\ extraction[p] = "none"
         /\ cleanupCalls[p] = 0
         /\ pc[p] \in {"stream_return", "done"}
         /\ Returned(p) => Report(p).streamExtraction = TRUE
    /\ BufferedBegun(p) =>
         /\ ~StreamSucceeded(p)
         /\ streamCalls[p] = 0 \/ streamFailure[p] # "none"

C6_Witness ==
  \E p \in Procs :
    /\ Returned(p)
    /\ streamCalls[p] = 1
    /\ StreamSucceeded(p)
    /\ bufferedCalls[p] = 0
    /\ Report(p).streamExtraction = TRUE

(***************************************************************************)
(* C7.  A report returned after the buffered strategy has streamExtraction *)
(* false, each phase duration is the measured time of the phase rounded    *)
(* to a whole millisecond, and combinedDurationMs is the sum of the two    *)
(* rounded durations.                                                      *)
(***************************************************************************)
C7_BufferedDurationsAddUp ==
  \A p \in Procs :
    (Returned(p) /\ BufferedBegun(p)) =>
      /\ Report(p).streamExtraction = FALSE
      /\ Report(p).downloadDurationMs = Some(MathRound(elapsed[p].download[1]))
      /\ Report(p).extractionDurationMs = Some(MathRound(elapsed[p].extraction[1]))
      /\ Report(p).combinedDurationMs =
           Report(p).downloadDurationMs[1] + Report(p).extractionDurationMs[1]

\* two phases of half a millisecond each: 1 ms + 1 ms, not round(1 ms)
C7_Witness ==
  \E p \in Procs :
    /\ Returned(p) /\ BufferedBegun(p)
    /\ elapsed[p].download = Some(1)
    /\ elapsed[p].extraction = Some(1)
    /\ Report(p).combinedDurationMs = 2

(***************************************************************************)
(* C8.  A report returned after a successful streaming run has             *)
(* streamExtraction true, no download or extraction duration, and a        *)
(* combined duration of at least 0.  In every returned report exactly one  *)
(* variant is populated, and streamExtraction tells whether the streaming  *)
(* strategy produced the result.                                           *)
(***************************************************************************)
C8_StreamedReportVariant ==
  \A p \in Procs :
    Returned(p) =>
      /\ StreamSucceeded(p) =>
           (StreamedVariant(Report(p)) /\ Report(p).combinedDurationMs >= 0)
      /\ StreamedVariant(Report(p)) # BufferedFirstVariant(Report(p))
      /\ Report(p).streamExtraction = StreamSucceeded(p)
      /\ Report(p).streamExtraction = (bufferedCalls[p] = 0)

C8_Witness ==
  \E p \in Procs :
    /\ Returned(p)
    /\ StreamSucceeded(p)
    /\ StreamedVariant(Report(p))
    /\ Report(p).combinedDurationMs = 1

(***************************************************************************)
(* C9.  In a returned report zstdFailureReason is present exactly when a   *)
(* streaming attempt was made and has failed before the fallback, and then *)
(* it is the reason of that failure.                                       *)
(***************************************************************************)
C9_FailureReasonReported ==
  \A p \in Procs :
    Returned(p) =>
      /\ (Report(p).zstdFailureReason # Undefined) = (streamFailure[p] # "none")
      /\ streamFailure[p] # "none" =>
           Report(p).zstdFailureReason = Some(streamFailure[p])

(***************************************************************************)
(* C10.  The toolsUrl of every returned report, streamed or buffered, is   *)
(* the source URL itself if and only if the source URL starts with         *)
(* https://github.com/<repo>/releases/download/ for one of the two trusted *)
(* repositories, and is the placeholder otherwise.                         *)
(***************************************************************************)
C10_ToolsUrlSanitized ==
  \A p \in Procs :
    Returned(p) =>
      /\ (Report(p).toolsUrl = codeqlURL[p]) = AllowListed(codeqlURL[p])
      /\ ~AllowListed(codeqlURL[p]) => Report(p).toolsUrl = <<"sanitized-value">>
      /\ AllowListed(Report(p).toolsUrl) \/ Report(p).toolsUrl = <<"sanitized-value">>

\* a URL that holds a trusted prefix, but not at its start, is redacted
C10_Witness ==
  \E p \in Procs :
    /\ Returned(p)
    /\ codeqlURL[p][3] = "https://github.com/"
    /\ Report(p).toolsUrl = <<"sanitized-value">>

(***************************************************************************)
(* C11.  Two invocations with the same source URL and working directory    *)
(* never have the same temporary archive path, and the archive file of an  *)
(* invocation is created or deleted only by a step of that invocation.     *)
(***************************************************************************)
C11_DistinctArchivePaths ==
  /\ [](\A p, q \in Procs :
          (p # q /\ dest[p] # 0 /\ dest[q] # 0) => dest[p] # dest[q])
  /\ [][\A q \in Procs :
          ( /\ dest[q] # 0
            /\ (dest[q] \in files) # (dest[q] \in files') ) => pc'[q] # pc[q]]_vars

\* both invocations hold their archive at the same time
C11_Witness ==
  \E p, q \in Procs :
    /\ p # q
    /\ codeqlURL[p] = codeqlURL[q]
    /\ pc[p] = "buffered_extract" /\ pc[q] = "buffered_extract"
    /\ dest[p] \in files /\ dest[q] \in files

(***************************************************************************)
(* C12.  When the classification of the source URL fails, the call throws  *)
(* UnrecognizedFormat at once: no streaming call, no request, no buffered  *)
(* run, no destination named, no warning of a fallback, no result.         *)
(***************************************************************************)
C12_UnrecognizedFormatIsFatal ==
  \A p \in Procs :
    ( /\ pc[p] \notin {"idle", "classify"}
      /\ codeqlURL[p][Len(codeqlURL[p])] \notin {".tar.gz", ".tar.zst"} ) =>
      /\ pc[p] = "failed"
      /\ thrown[p] = "UnrecognizedFormat"
      /\ streamCalls[p] = 0
      /\ response[p] = "none"
      /\ bufferedCalls[p] = 0
      /\ dest[p] = 0
      /\ download[p] = "none"
      /\ warnings[p] = <<>>
      /\ result[p] = <<>>

C12_Witness ==
  \E p \in Procs :
    /\ pc[p] = "failed"
    /\ thrown[p] = "UnrecognizedFormat"
    /\ platform[p] = "linux"
    /\ codeqlURL[p][Len(codeqlURL[p])] = ".zip"

(***************************************************************************)
(* C14.  A failure of the buffered strategy is fatal and propagates        *)
(* unchanged: after a failed download, or a failed extraction once the     *)
(* finally has run, the call has thrown the very error the collaborator    *)
(* raised, there is no result, and each strategy was started at most once; *)
(* after a failed extraction the cleanup was called exactly once, and a    *)
(* failed cleanup does not change the error thrown.                        *)
(***************************************************************************)
C14_BufferedFailureIsFatal ==
  \A p \in Procs :
    /\ download[p] = "failed" =>
         /\ Threw(p)
         /\ raised[p] \in {"HTTPError", "ENOSPC"}
         /\ thrown[p] = raised[p]
         /\ extraction[p] = "none"
         /\ cleanupCalls[p] = 0
    /\ (extraction[p] = "failed" /\ pc[p] # "finally") =>
         /\ Threw(p)
         /\ raised[p] \in {"CommandInvocationError", "ENOSPC"}
         /\ thrown[p] = raised[p]
         /\ cleanupCalls[p] = 1
         /\ cleanup[p] \in {"deleted", "failed"}
    /\ (Threw(p) /\ BufferedBegun(p)) =>
         /\ result[p] = <<>>
         /\ bufferedCalls[p] = 1
         /\ streamCalls[p] <= 1
         /\ download[p] = "failed" \/ extraction[p] = "failed"

\* the extraction fails, then the deletion fails too
C14_Witness ==
  \E p \in Procs :
    /\ Threw(p)
    /\ extraction[p] = "failed"
    /\ cleanup[p] = "failed"
    /\ dest[p] \in files
    /\ thrown[p] = "CommandInvocationError"

(***************************************************************************)
(* C15.  As claimed: the streaming strategy issues exactly one HTTP        *)
(* request; a status that is not a success status fails the strategy       *)
(* without the response being handed to the extraction; a success status   *)
(* has the response handed to the extraction.                              *)
(***************************************************************************)
C15_OneRequestSuccessStatusExtracted ==
  \A p \in Procs :
    StreamStrategyLeft(p) =>
      /\ httpRequests[p] = 1
      /\ statusCode[p] # 0 =>
           IF SuccessStatus(statusCode[p])
           THEN extractTarZstCalls[p] = 1
           ELSE extractTarZstCalls[p] = 0 /\ streamFailure[p] = "HttpStatus"

(***************************************************************************)
(* C15, amended.  The streaming strategy issues at most one HTTP request,  *)
(* and exactly one unless the source URL cannot be parsed; a status other  *)
(* than 200 fails the strategy without the response being handed to the    *)
(* extraction and without another request; status 200 has the response     *)
(* handed to the extraction, once.                                         *)
(***************************************************************************)
C15_OneRequestStatus200Extracted ==
  \A p \in Procs :
    /\ httpRequests[p] <= 1
    /\ extractTarZstCalls[p] <= 1
    /\ StreamStrategyLeft(p) =>
         /\ httpRequests[p] = IF streamFailure[p] = "InvalidUrl" THEN 0 ELSE 1
         /\ statusCode[p] # 0 =>
              IF statusCode[p] = 200
              THEN extractTarZstCalls[p] = 1
              ELSE /\ extractTarZstCalls[p] = 0
                   /\ streamFailure[p] = "HttpStatus"
                   /\ httpRequests[p] = 1

\* a 204 answer is a failure of the strategy
C15_Witness ==
  \E p \in Procs :
    /\ StreamStrategyLeft(p)
    /\ statusCode[p] = 204
    /\ httpRequests[p] = 1
    /\ extractTarZstCalls[p] = 0
    /\ streamFailure[p] = "HttpStatus"

(***************************************************************************)
(* C16.  The headers of the streaming request are User-Agent, the          *)
(* authorization header when a non-empty authorization is given, and all   *)
(* headers of the caller; every header of the caller is sent with the      *)
(* caller's value, also when it is User-Agent or authorization.            *)
(***************************************************************************)
C16_CallerHeadersWin ==
  \A p \in Procs :
    request[p] # <<>> =>
      LET sent == request[p][1].headers
          given == authorization[p] # <<>> /\ authorization[p] # <<"">>
      IN /\ DOMAIN sent = {"User-Agent"}
                          \cup (IF given THEN {"authorization"} ELSE {})
                          \cup DOMAIN headers[p]
         /\ \A k \in DOMAIN headers[p] : sent[k] = headers[p][k]
         /\ "User-Agent" \notin DOMAIN headers[p] =>
              sent["User-Agent"] = "CodeQL Action"
         /\ (given /\ "authorization" \notin DOMAIN headers[p]) =>
              sent["authorization"] = authorization[p][1]

\* the authorization argument and the caller's authorization header conflict
C16_Witness ==
  \E p \in Procs :
    /\ request[p] # <<>>
    /\ authorization[p] = <<"token secret">>
    /\ "authorization" \in DOMAIN headers[p]
    /\ request[p][1].headers["authorization"] = "token of caller"

(***************************************************************************)
(* C17.  Proxy resolution changes only where the request connects: the     *)
(* target is the endpoint of the resolver, or the source URL without one;  *)
(* the headers are the same with and without an endpoint; and the resource *)
(* asked for is the source URL in both cases.                              *)
(***************************************************************************)
C17_ProxyChangesOnlyTarget ==
  \A p \in Procs :
    request[p] # <<>> =>
      /\ request[p][1].connectTo =
           IF proxy[p] = <<>> THEN codeqlURL[p] ELSE proxy[p][1]
      /\ request[p][1].headers = StreamingHeaders(authorization[p], headers[p])
      /\ request[p][1].resource = codeqlURL[p]

(***************************************************************************)
(* Properties of Features.getValue.                                        *)
(***************************************************************************)
\* the call of caller c has returned or thrown
Answered(c) == calls[c].pc \in {"returned", "threw"}

\* the call of caller c returned value
Gave(c, value) == calls[c].pc = "returned" /\ calls[c].value = Some(value)

\* the call of caller c neither consulted the API nor requested anything
NoApi(c) == calls[c].requests = 0 /\ calls[c].source = "none"

\* the flag of the call has a minimum version and no CodeQL instance came
MissingCodeQL(c) ==
  /\ calls[c].codeql = Undefined
  /\ calls[c].flag \in {"ml_powered_queries_enabled", "cli_config_file_enabled"}

\* the environment variable of the call says false, says true
EnvFalse(c) == calls[c].envVar \in {"false", "FALSE"}
EnvTrue(c) == calls[c].envVar \in {"true", "True"}

\* the call asks for BypassToolcacheEnabled in test mode
BypassInTestMode(c) ==
  calls[c].flag = "bypass_toolcache_enabled" /\ calls[c].testMode

\* the CLI of the call is older than the flag's minimum version
CliTooOld(c) ==
  /\ calls[c].codeql # Undefined
  /\ \/ /\ calls[c].flag = "ml_powered_queries_enabled"
        /\ VersionBelow(calls[c].codeql[1], <<2, 7, 5>>)
     \/ /\ calls[c].flag = "cli_config_file_enabled"
        /\ VersionBelow(calls[c].codeql[1], <<2, 10, 1>>)

\* the precedence of the local decisions, for an answered call
Precedence(c) ==
  IF BypassInTestMode(c) \/ EnvFalse(c) THEN Gave(c, FALSE) /\ NoApi(c)
  ELSE IF CliTooOld(c) THEN Gave(c, FALSE) /\ NoApi(c)
  ELSE IF EnvTrue(c) THEN Gave(c, TRUE) /\ NoApi(c)
  ELSE TRUE

\* the API is consulted by a call only when nothing local decides
ApiOnlyWhenUndecided(c) ==
  calls[c].source # "none" =>
    ~(BypassInTestMode(c) \/ EnvFalse(c) \/ CliTooOld(c) \/ EnvTrue(c))

\* C13: a call of getValue for a flag with a minimumVersion and without a
\* CodeQL instance throws the internal error, whatever the environment
\* variable and the test mode are, and requests nothing from the API
C13_MissingCodeQLIsInternalError ==
  \A c \in Callers :
    (calls[c].pc # "idle" /\ MissingCodeQL(c)) =>
      /\ calls[c].pc = "threw"
      /\ calls[c].error = "InternalError"
      /\ NoApi(c)

C13_Witness ==
  \E c \in Callers :
    /\ MissingCodeQL(c)
    /\ calls[c].pc = "threw"
    /\ calls[c].envVar = "FALSE"
    /\ calls[c].testMode

\* C18 (as stated): every answered call follows the precedence env false,
\* then CLI too old, then env true, and consults the API only when none of
\* them decided
C18_FixedPrecedence ==
  \A c \in Callers :
    /\ Answered(c) => Precedence(c)
    /\ ApiOnlyWhenUndecided(c)

\* C18 (amended): every answered call that was not rejected for a missing
\* CodeQL instance follows the precedence env false, then CLI too old, then
\* env true; the API is consulted only when none of them decided, and is
\* consulted then
C18_FixedPrecedenceUnlessRejected ==
  \A c \in Callers :
    /\ (Answered(c) /\ ~MissingCodeQL(c)) =>
         /\ Precedence(c)
         /\ ~(BypassInTestMode(c) \/ EnvFalse(c) \/ CliTooOld(c) \/ EnvTrue(c))
              => calls[c].source # "none"
    /\ ApiOnlyWhenUndecided(c)

C18_Witness ==
  \E c \in Callers :
    /\ EnvTrue(c)
    /\ CliTooOld(c)
    /\ ~BypassInTestMode(c)
    /\ Gave(c, FALSE)

\* C19: over any calls of getValue on one instance the feature flags
\* endpoint is requested at most once
C19_AtMostOneApiRequest == apiRequests <= 1

\* what the API reported for the flag of the call
Reported(c) ==
  /\ calls[c].apiResponse # Undefined
  /\ calls[c].flag \in DOMAIN calls[c].apiResponse[1]
  /\ calls[c].apiResponse[1][calls[c].flag]

\* C20: a call that consults the API requests nothing and gets false on an
\* instance other than github.com; gets false with a warning on a 403
\* response; throws on any other request error; and gets false for a flag
\* that a successful response does not mention
C20_ApiOutcomes ==
  \A c \in Callers :
    /\ gitHubVersion # "DOTCOM" =>
         /\ calls[c].requests = 0
         /\ (Answered(c) /\ calls[c].source # "none") => Gave(c, FALSE)
    /\ (Answered(c) /\ calls[c].failure # Undefined) =>
         IF calls[c].failure[1].isHTTPError /\ calls[c].failure[1].status = 403
         THEN calls[c].warned /\ Gave(c, FALSE)
         ELSE calls[c].pc = "threw" /\ calls[c].error = "LoadError"
    /\ (Answered(c) /\ calls[c].source \in {"data", "cache"}) =>
         Gave(c, Reported(c))

C20_Witness ==
  \E c \in Callers :
    /\ calls[c].failure # Undefined
    /\ calls[c].failure[1].status = 403
    /\ calls[c].warned
    /\ Gave(c, FALSE)

====
